---------------------------- MODULE Spec2Model ----------------------------
(***************************************************************************)
(* Model of the MindMenders-AI sentiment service:                          *)
(*   sentiment_service/train_model.py  (training pipeline)                 *)
(*   sentiment_service/app.py          (Flask serving process)             *)
(*                                                                         *)
(* Four specifications share the variables:                                *)
(*   SpecAug    augment_text on one normalized text                        *)
(*   SpecVocab  label vocabulary: LabelEncoder -> .npy / config -> serving *)
(*   Spec       train_sentiment_model, statement by statement              *)
(*   SpecServe  the /analyze and /healthz handlers                         *)
(*                                                                         *)
(* Strings whose characters matter (texts, labels, parameter names) are    *)
(* sequences of one-character strings or of character codes.               *)
(***************************************************************************)
EXTENDS Integers, Sequences, FiniteSets, TLC

VARIABLES
    \* ---- augment_text (train_model.py:137-167)
    apc,            \* position inside augment_text
    text,           \* the argument: a sequence of characters
    words,          \* text.split()
    augmented,      \* the list being returned
    words_copy,     \* the working copy of the adjacent-swap pass
    swap_i,         \* loop index i of the swap pass (0-based)
    draws           \* number of calls made to np.random so far

VARIABLES
    \* ---- train_sentiment_model (train_model.py:298-417) and __main__
    pc,             \* statement the training script is at
    exit_code,      \* process exit status: Absent while running, "zero", "nonzero"
    killed_at,      \* the statement an external termination interrupted
    raised_at,      \* the statement that raised the exception being handled
    fs,             \* what is stored under OUTPUT_DIR
    fs0,            \* what was stored there when the run started
    rows,           \* the emotion column after augmentation
    classes_,       \* label_encoder.classes_
    requires_grad,  \* parameter index -> requires_grad
    layer_i,        \* loop index of the layer-freezing loop
    optimizer_groups, \* optimizer_grouped_parameters
    steps_per_epoch,  \* len(train_loader)
    warmup_steps,
    total_steps,
    sched_step,     \* scheduler step counter
    lr_mult,        \* current learning-rate multiplier, <<num, den>>
    opt_steps,      \* optimizer updates applied so far
    epoch,          \* loop variable of the epoch loop (0-based)
    batch,          \* minibatches of the running epoch already processed
    val_acc,        \* last validation accuracy, <<correct, total>>
    best_accuracy,  \* <<num, den>>
    seen,           \* validation accuracies of the completed selections
    persists,       \* completed checkpoint persists of this run
    last_ckpt       \* the checkpoint location as the last completed persist left it

VARIABLES
    \* ---- serving process (app.py)
    server,         \* "down", "serving" or "stopped"
    model,          \* the global model: NoCkpt (None) or the loaded weights
    tokenizer,      \* the global tokenizer
    config,         \* the global config
    label_encoder_classes, \* the global label list
    request,        \* last request handled
    response        \* its response

augVars == <<apc, text, words, augmented, words_copy, swap_i, draws>>

fsVars == <<fs, fs0>>

dataVars == <<rows, classes_>>

policyVars == <<requires_grad, layer_i, optimizer_groups>>

schedVars == <<steps_per_epoch, warmup_steps, total_steps, sched_step, lr_mult, opt_steps>>

loopVars == <<epoch, batch, val_acc, best_accuracy, seen, persists, last_ckpt>>

trainVars == <<pc, exit_code, killed_at, raised_at, fsVars, dataVars, policyVars, schedVars, loopVars>>

serveVars == <<server, model, tokenizer, config, label_encoder_classes, request, response>>

vars == <<augVars, trainVars, serveVars>>

Absent == "absent"

\* ------------------------------------------------------------------------
\* Bounds of the model
\* ------------------------------------------------------------------------
MaxWords == 5

\* longest label column enumerated
MaxRows == 4

\* largest len(train_loader) enumerated
MaxStepsPerEpoch == 2

\* size of the validation set
ValTotal == 100

\* ------------------------------------------------------------------------
\* Python string helpers
\* ------------------------------------------------------------------------
RECURSIVE SplitAcc(_, _, _)
SplitAcc(s, cur, acc) ==
    IF s = <<>>
    THEN IF cur = <<>> THEN acc ELSE Append(acc, cur)
    ELSE IF Head(s) = " "
         THEN SplitAcc(Tail(s), <<>>, IF cur = <<>> THEN acc ELSE Append(acc, cur))
         ELSE SplitAcc(Tail(s), Append(cur, Head(s)), acc)

\* str.split(): split on runs of whitespace, no empty words
Split(s) == SplitAcc(s, <<>>, <<>>)

RECURSIVE Join(_)
\* ' '.join(ws)
Join(ws) ==
    IF ws = <<>> THEN <<>>
    ELSE IF Len(ws) = 1 THEN ws[1]
    ELSE ws[1] \o <<" ">> \o Join(Tail(ws))

\* words[:k] + words[k+1:] for a 0-based index k
RemoveAt(ws, k) ==
    SubSeq(ws, 1, k) \o SubSeq(ws, k + 2, Len(ws))

\* ws[i], ws[i+1] = ws[i+1], ws[i] for a 0-based index i
SwapAdjacent(ws, i) ==
    [j \in 1..Len(ws) |->
        IF j = i + 1 THEN ws[i + 2]
        ELSE IF j = i + 2 THEN ws[i + 1]
        ELSE ws[j]]

\* ------------------------------------------------------------------------
\* The parts of the state a specification does not exercise
\* ------------------------------------------------------------------------
AugIdle ==
    /\ apc = "idle"
    /\ text = <<>>
    /\ words = <<>>
    /\ augmented = <<>>
    /\ words_copy = <<>>
    /\ swap_i = 0
    /\ draws = 0

\* no checkpoint part / no config / None
NoCkpt == [run |-> "none", epoch |-> 0]

NoConfig == [model_name |-> "", num_labels |-> 0, max_length |-> 0, label_mapping |-> {}]

NoneList == [is_none |-> TRUE, items |-> <<>>]

NoMessage == [kind |-> "none"]

\* nothing stored under OUTPUT_DIR; files is the set of artifacts present
EmptyFs ==
    [dir |-> FALSE, files |-> {}, labels_npy |-> <<>>, weights |-> NoCkpt,
     tokenizer |-> NoCkpt, config |-> NoConfig]

\* the state of the training script's locals before they are assigned
TrainFresh ==
    /\ exit_code = Absent
    /\ killed_at = Absent
    /\ raised_at = Absent
    /\ rows = <<>>
    /\ classes_ = <<>>
    /\ requires_grad = <<>>
    /\ layer_i = 0
    /\ optimizer_groups = <<>>
    /\ steps_per_epoch = 0
    /\ warmup_steps = 0
    /\ total_steps = 0
    /\ sched_step = 0
    /\ lr_mult = <<0, 1>>
    /\ opt_steps = 0
    /\ epoch = 0
    /\ batch = 0
    /\ val_acc = <<0, 1>>
    /\ best_accuracy = <<0, 1>>
    /\ seen = {}
    /\ persists = 0
    /\ last_ckpt = <<fs.weights, fs.tokenizer>>

TrainIdle ==
    /\ pc = "idle"
    /\ fs = EmptyFs
    /\ fs0 = EmptyFs
    /\ TrainFresh

\* app.py:24-27, the module-level globals before anything is loaded
ServeGlobalsNone ==
    /\ model = NoCkpt
    /\ tokenizer = NoCkpt
    /\ config = NoConfig
    /\ label_encoder_classes = NoneList

ServeIdle ==
    /\ server = "down"
    /\ ServeGlobalsNone
    /\ request = NoMessage
    /\ response = NoMessage

\* ------------------------------------------------------------------------
\* augment_text
\* ------------------------------------------------------------------------
\* The words a normalized text is made of (preprocess_text joins the
\* lemmatized tokens with single spaces; empty texts are dropped before
\* augmentation, train_model.py:191-192).
WordSet == {<<"a">>, <<"b", "c">>}

WordSeqs == UNION {[1..n -> WordSet] : n \in 1..MaxWords}

NormalizedTexts == {Join(ws) : ws \in WordSeqs}

AugInit ==
    /\ apc = "entry"
    /\ text \in NormalizedTexts
    /\ words = <<>>
    /\ augmented = <<>>
    /\ words_copy = <<>>
    /\ swap_i = 0
    /\ draws = 0
    /\ TrainIdle
    /\ ServeIdle

\* a word-drop technique that shares the threshold of the short-text guard
DropGuardSameAsShort(ws) == Len(ws) > 3

\* the word-count guard of the word-drop technique (line 154)
DropGuard(ws) == Len(ws) > 4

\* a short-text guard that is off by one
ShortGuardOffByOne(ws) == Len(ws) <= 2

\* the word-count guard that leaves short texts alone (line 147)
ShortGuard(ws) == Len(ws) <= 3

\* lines 143-151: split, return [text] for a short text, else keep the original
AugEntry ==
    /\ apc = "entry"
    /\ words' = Split(text)
    /\ IF ShortGuard(Split(text))
       THEN /\ augmented' = <<text>>
            /\ apc' = "returned"
       ELSE /\ augmented' = <<text>>
            /\ apc' = "drop"
    /\ UNCHANGED <<text, words_copy, swap_i, draws>>
    /\ UNCHANGED <<trainVars, serveVars>>

\* lines 153-160: the word-drop variant, then the working copy
AugDrop ==
    /\ apc = "drop"
    /\ IF DropGuard(words)
       THEN \E remove_idx \in 0..(Len(words) - 1) :
               /\ augmented' = Append(augmented, Join(RemoveAt(words, remove_idx)))
               /\ draws' = draws + 1
       ELSE UNCHANGED <<augmented, draws>>
    /\ words_copy' = words
    /\ swap_i' = 0
    /\ apc' = "swap"
    /\ UNCHANGED <<text, words>>
    /\ UNCHANGED <<trainVars, serveVars>>

\* lines 161-163: one iteration of the swap loop, np.random.random() < 0.3
AugSwapStep ==
    /\ apc = "swap"
    /\ swap_i < Len(words_copy) - 1
    /\ \E doSwap \in BOOLEAN :
          words_copy' = IF doSwap THEN SwapAdjacent(words_copy, swap_i)
                        ELSE words_copy
    /\ draws' = draws + 1
    /\ swap_i' = swap_i + 1
    /\ UNCHANGED <<apc, text, words, augmented>>
    /\ UNCHANGED <<trainVars, serveVars>>

\* lines 164-167: append the swapped variant and return
AugReturn ==
    /\ apc = "swap"
    /\ swap_i >= Len(words_copy) - 1
    /\ augmented' = Append(augmented, Join(words_copy))
    /\ apc' = "returned"
    /\ UNCHANGED <<text, words, words_copy, swap_i, draws>>
    /\ UNCHANGED <<trainVars, serveVars>>

AugNext == AugEntry \/ AugDrop \/ AugSwapStep \/ AugReturn

SpecAug == AugInit /\ [][AugNext]_vars

\* ------------------------------------------------------------------------
\* Numbers and fractions
\* ------------------------------------------------------------------------
Max(a, b) == IF a >= b THEN a ELSE b

\* fractions <<num, den>> with den > 0, compared as Python compares floats
RatLess(a, b) == a[1] * b[2] < b[1] * a[2]

RatEq(a, b) == a[1] * b[2] = b[1] * a[2]

RatLeq(a, b) == RatLess(a, b) \/ RatEq(a, b)

Digit(d) == <<"0", "1", "2", "3", "4", "5", "6", "7", "8", "9">>[d + 1]

RECURSIVE Decimal(_)
\* str(i) for i >= 0, as a sequence of digit characters
Decimal(i) ==
    IF i < 10 THEN <<Digit(i)>>
    ELSE Decimal(i \div 10) \o <<Digit(i % 10)>>

Range(f) == {f[j] : j \in DOMAIN f}

\* ------------------------------------------------------------------------
\* Configuration (train_model.py:67-71)
\* ------------------------------------------------------------------------
NUM_EPOCHS == 10

MAX_LENGTH == 128

MODEL_NAME == "bert-base-uncased"

\* number of encoder blocks of bert-base-uncased
NumLayers == 12

\* ------------------------------------------------------------------------
\* Label vocabulary (LabelEncoder, train_model.py:314-316)
\* ------------------------------------------------------------------------
\* label strings as sequences of character codes
happy == <<104, 97, 112, 112, 121>>

sad == <<115, 97, 100>>

sadness == <<115, 97, 100, 110, 101, 115, 115>>

suicidal == <<115, 117, 105, 99, 105, 100, 97, 108>>

LabelSet == {happy, sad, sadness, suicidal}

RECURSIVE LexLess(_, _)
\* a < b for Python str: code point by code point, a proper prefix is smaller
LexLess(a, b) ==
    IF a = <<>> THEN b # <<>>
    ELSE IF b = <<>> THEN FALSE
    ELSE IF Head(a) < Head(b) THEN TRUE
    ELSE IF Head(a) > Head(b) THEN FALSE
    ELSE LexLess(Tail(a), Tail(b))

RECURSIVE InsertSorted(_, _)
\* x put at its place in the sorted duplicate-free sequence s
InsertSorted(s, x) ==
    IF s = <<>> THEN <<x>>
    ELSE IF x = Head(s) THEN s
    ELSE IF LexLess(x, Head(s)) THEN <<x>> \o s
    ELSE <<Head(s)>> \o InsertSorted(Tail(s), x)

RECURSIVE KeepFirstSeen(_, _)
KeepFirstSeen(rs, acc) ==
    IF rs = <<>> THEN acc
    ELSE KeepFirstSeen(Tail(rs),
            IF Head(rs) \in Range(acc) THEN acc ELSE Append(acc, Head(rs)))

\* distinct labels in order of first appearance (what pandas.unique gives)
UniqueFirstSeen(rs) == KeepFirstSeen(rs, <<>>)

RECURSIVE Unique(_)
\* np.unique(y) as LabelEncoder.fit uses it: the sorted distinct values
Unique(rs) ==
    IF rs = <<>> THEN <<>>
    ELSE InsertSorted(Unique(Tail(rs)), Head(rs))

\* {i: label for i, label in enumerate(classes_)} after json.dump, which
\* writes the integer keys as decimal strings: a set of key/value pairs
LabelMappingJson(cls) == {<<Decimal(j - 1), cls[j]>> : j \in 1..Len(cls)}

\* lines 405-410
ModelConfig(cls) ==
    [model_name |-> MODEL_NAME, num_labels |-> Len(cls),
     max_length |-> MAX_LENGTH, label_mapping |-> LabelMappingJson(cls)]

\* ------------------------------------------------------------------------
\* Parameters of BertForSequenceClassification and the fine-tuning policy
\* ------------------------------------------------------------------------
EmbeddingParam(k) == <<"bert", ".", "embeddings", ".", k, ".", "weight">>

LayerPrefix(i) == <<"bert", ".", "encoder", ".", "layer", ".">> \o Decimal(i) \o <<".">>

LayerParam(i, k) == LayerPrefix(i) \o k

PoolerParam(k) == <<"bert", ".", "pooler", ".", "dense", ".", k>>

ClassifierParam(k) == <<"classifier", ".", k>>

AttentionWeight == <<"attention", ".", "self", ".", "query", ".", "weight">>

OutputBias == <<"output", ".", "dense", ".", "bias">>

\* model.named_parameters(), in order
ParamNames ==
    <<EmbeddingParam("word_embeddings"), EmbeddingParam("LayerNorm")>>
    \o [j \in 1..(2 * NumLayers) |->
          LayerParam((j - 1) \div 2, IF j % 2 = 1 THEN AttentionWeight ELSE OutputBias)]
    \o <<PoolerParam("weight"), PoolerParam("bias"),
         ClassifierParam("weight"), ClassifierParam("bias")>>

HasPrefix(n, pre) == Len(n) >= Len(pre) /\ SubSeq(n, 1, Len(pre)) = pre

\* pat in n
Contains(n, pat) ==
    \E o \in 0..(Len(n) - Len(pat)) : SubSeq(n, o + 1, o + Len(pat)) = pat

\* indices of the parameters of a sub-module, given the prefix of their names
ModuleParams(pre) == {j \in 1..Len(ParamNames) : HasPrefix(ParamNames[j], pre)}

\* requires_grad = False on a set of parameters
Freeze(rg, ps) == [j \in 1..Len(rg) |-> IF j \in ps THEN FALSE ELSE rg[j]]

\* the loop of lines 336-339 freezes every block up to block 10 included
FreezeLayerGuardThrough10(i) == i < 11

\* line 337
FreezeLayerGuard(i) == i < 10

\* [p for n, p in model.named_parameters() if pat in n]
GroupParams(pat) == {j \in 1..Len(ParamNames) : Contains(ParamNames[j], pat)}

\* lines 367-371; lr in units of 1e-5, weight_decay in units of 1e-2
OptimizerGroupedParameters ==
    << [params |-> GroupParams(<<"classifier">>), lr |-> 20, weight_decay |-> 1],
       [params |-> GroupParams(<<"layer", ".", "1", "1">>), lr |-> 10, weight_decay |-> 1],
       [params |-> GroupParams(<<"layer", ".", "1", "0">>), lr |-> 5, weight_decay |-> 1] >>

\* ------------------------------------------------------------------------
\* Learning-rate schedule (lines 363-364, 374-379)
\* ------------------------------------------------------------------------
\* line 363
WarmupSteps(n) == n * 2

\* line 364
TotalSteps(n) == n * NUM_EPOCHS

\* the multiplier of get_scheduler("linear") at a step, as <<num, den>>:
\*   step / max(1, nw)                          if step < nw
\*   max(0, (nt - step) / max(1, nt - nw))      otherwise
LrLambda(step, nw, nt) ==
    IF step < nw THEN <<step, Max(1, nw)>>
    ELSE IF nt - step <= 0 THEN <<0, 1>>
    ELSE <<nt - step, Max(1, nt - nw)>>

\* ------------------------------------------------------------------------
\* train_sentiment_model, statement by statement
\* ------------------------------------------------------------------------
\* a bundle left under OUTPUT_DIR by an earlier, complete run
PriorFs ==
    [dir |-> TRUE,
     files |-> {"label_encoder_classes.npy", "best_model/weights",
                "best_model/tokenizer", "model_config.json"},
     labels_npy |-> <<happy, sad>>,
     weights |-> [run |-> "earlier", epoch |-> 2],
     tokenizer |-> [run |-> "earlier", epoch |-> 2],
     config |-> ModelConfig(<<happy, sad>>)]

\* the label column of the example of the specification, section 8.3
ExampleRows == <<sad, happy, sad, suicidal>>

RowSeqs == UNION {[1..n -> LabelSet] : n \in 0..MaxRows}

\* correct predictions, out of ValTotal, that an epoch's validation may reach
ValCorrectChoices == {0, 55, 60, 72}

TrainInit(FsSet) ==
    /\ pc = "makedirs"
    /\ fs \in FsSet
    /\ fs0 = fs
    /\ TrainFresh
    /\ AugIdle
    /\ ServeIdle

\* an exception propagates out of the try block of train_sentiment_model
Raise(stmt) ==
    /\ pc' = "raised"
    /\ raised_at' = stmt

\* a run that also lays out the checkpoint directory up front
MakeDirsWithCheckpointDir ==
    /\ pc = "makedirs"
    /\ fs' = [fs EXCEPT !.dir = TRUE, !.files = @ \cup {"best_model"}]
    /\ pc' = "load"
    /\ UNCHANGED <<exit_code, killed_at, raised_at, fs0, dataVars, policyVars,
                   schedVars, loopVars, augVars, serveVars>>

\* line 303
MakeDirs ==
    /\ pc = "makedirs"
    /\ fs' = [fs EXCEPT !.dir = TRUE]
    /\ pc' = "load"
    /\ UNCHANGED <<exit_code, killed_at, raised_at, fs0, dataVars, policyVars,
                   schedVars, loopVars, augVars, serveVars>>

\* line 311 and load_and_preprocess_data (170-210): read_csv raises, the
\* column check raises, or the augmented label column is returned
LoadData(Datasets) ==
    /\ pc = "load"
    /\ \E outcome \in {"ok", "unreadable", "missing_columns"} :
          IF outcome = "ok"
          THEN /\ \E d \in Datasets : rows' = d
               /\ pc' = "fit"
               /\ UNCHANGED raised_at
          ELSE /\ Raise("load")
               /\ UNCHANGED rows
    /\ UNCHANGED <<exit_code, killed_at, fsVars, classes_, policyVars,
                   schedVars, loopVars, augVars, serveVars>>

\* lines 314-316
FitLabels ==
    /\ pc = "fit"
    /\ classes_' = Unique(rows)
    /\ pc' = "save_classes"
    /\ UNCHANGED <<exit_code, killed_at, raised_at, fsVars, rows, policyVars,
                   schedVars, loopVars, augVars, serveVars>>

\* line 319
SaveClasses ==
    /\ pc = "save_classes"
    /\ fs' = [fs EXCEPT !.labels_npy = classes_,
                        !.files = @ \cup {"label_encoder_classes.npy"}]
    /\ pc' = "load_bert"
    /\ UNCHANGED <<exit_code, killed_at, raised_at, fs0, dataVars, policyVars,
                   schedVars, loopVars, augVars, serveVars>>

\* lines 324-329: from_pretrained gives a model whose parameters all
\* require gradients, or raises (no network, no cache)
LoadBert ==
    /\ pc = "load_bert"
    /\ \E ok \in BOOLEAN :
          IF ok
          THEN /\ requires_grad' = [j \in 1..Len(ParamNames) |-> TRUE]
               /\ pc' = "freeze_embeddings"
               /\ UNCHANGED raised_at
          ELSE /\ Raise("load_bert")
               /\ UNCHANGED requires_grad
    /\ UNCHANGED <<exit_code, killed_at, fsVars, dataVars, layer_i, optimizer_groups,
                   schedVars, loopVars, augVars, serveVars>>

\* lines 333-334
FreezeEmbeddings ==
    /\ pc = "freeze_embeddings"
    /\ requires_grad' =
          Freeze(requires_grad, ModuleParams(<<"bert", ".", "embeddings", ".">>))
    /\ layer_i' = 0
    /\ pc' = "freeze_layers"
    /\ UNCHANGED <<exit_code, killed_at, raised_at, fsVars, dataVars, optimizer_groups,
                   schedVars, loopVars, augVars, serveVars>>

\* lines 336-341: one iteration of the loop over model.bert.encoder.layer
FreezeLayer ==
    /\ pc = "freeze_layers"
    /\ layer_i < NumLayers
    /\ requires_grad' =
          IF FreezeLayerGuard(layer_i)
          THEN Freeze(requires_grad, ModuleParams(LayerPrefix(layer_i)))
          ELSE requires_grad
    /\ layer_i' = layer_i + 1
    /\ pc' = IF layer_i + 1 = NumLayers THEN "split" ELSE "freeze_layers"
    /\ UNCHANGED <<exit_code, killed_at, raised_at, fsVars, dataVars, optimizer_groups,
                   schedVars, loopVars, augVars, serveVars>>

\* lines 345-360: train_test_split raises (no rows, a class too small to
\* stratify), or the loaders are built and len(train_loader) is known
SplitData(SpeSet) ==
    /\ pc = "split"
    /\ \/ /\ rows # <<>>
          /\ \E n \in SpeSet : steps_per_epoch' = n
          /\ pc' = "optimizer"
          /\ UNCHANGED raised_at
       \/ /\ Raise("split")
          /\ UNCHANGED steps_per_epoch
    /\ UNCHANGED <<exit_code, killed_at, fsVars, dataVars, policyVars,
                   warmup_steps, total_steps, sched_step, lr_mult, opt_steps,
                   loopVars, augVars, serveVars>>

\* lines 363-381
SetupOptimizer ==
    /\ pc = "optimizer"
    /\ warmup_steps' = WarmupSteps(steps_per_epoch)
    /\ total_steps' = TotalSteps(steps_per_epoch)
    /\ optimizer_groups' = OptimizerGroupedParameters
    /\ sched_step' = 0
    /\ lr_mult' = LrLambda(0, WarmupSteps(steps_per_epoch), TotalSteps(steps_per_epoch))
    /\ best_accuracy' = <<0, 1>>
    /\ epoch' = 0
    /\ batch' = 0
    /\ pc' = "train"
    /\ UNCHANGED <<exit_code, killed_at, raised_at, fsVars, dataVars, requires_grad,
                   layer_i, steps_per_epoch, opt_steps, val_acc, seen, persists,
                   last_ckpt, augVars, serveVars>>

\* the scheduler is advanced once per epoch only
SchedulerAdvanceAtEpochEnd ==
    IF batch + 1 = steps_per_epoch THEN sched_step + 1 ELSE sched_step

\* line 255: scheduler.step() after every optimizer.step()
SchedulerAdvance == sched_step + 1

\* a training step that also saves the weights after every minibatch
TrainBatchWithCheckpoint ==
    /\ pc = "train"
    /\ batch < steps_per_epoch
    /\ opt_steps' = opt_steps + 1
    /\ sched_step' = SchedulerAdvance
    /\ lr_mult' = LrLambda(SchedulerAdvance, warmup_steps, total_steps)
    /\ batch' = batch + 1
    /\ pc' = IF batch + 1 = steps_per_epoch THEN "validate" ELSE "train"
    /\ fs' = [fs EXCEPT !.weights = [run |-> "this", epoch |-> epoch + 1],
                        !.files = @ \cup {"best_model/weights"}]
    /\ UNCHANGED <<exit_code, killed_at, raised_at, fs0, dataVars, policyVars,
                   steps_per_epoch, warmup_steps, total_steps,
                   epoch, val_acc, best_accuracy, seen, persists, last_ckpt,
                   augVars, serveVars>>

\* train_epoch, lines 224-255: one minibatch; the last one ends the epoch
TrainBatch ==
    /\ pc = "train"
    /\ batch < steps_per_epoch
    /\ opt_steps' = opt_steps + 1
    /\ sched_step' = SchedulerAdvance
    /\ lr_mult' = LrLambda(SchedulerAdvance, warmup_steps, total_steps)
    /\ batch' = batch + 1
    /\ pc' = IF batch + 1 = steps_per_epoch THEN "validate" ELSE "train"
    /\ UNCHANGED <<exit_code, killed_at, raised_at, fsVars, dataVars, policyVars,
                   steps_per_epoch, warmup_steps, total_steps,
                   epoch, val_acc, best_accuracy, seen, persists, last_ckpt,
                   augVars, serveVars>>

\* evaluate, lines 262-293 and 391: accuracy = correct / total
Evaluate(CorrectSet) ==
    /\ pc = "validate"
    /\ \E c \in CorrectSet : val_acc' = <<c, ValTotal>>
    /\ pc' = "select"
    /\ UNCHANGED <<exit_code, killed_at, raised_at, fsVars, dataVars, policyVars,
                   schedVars, epoch, batch, best_accuracy, seen, persists, last_ckpt,
                   augVars, serveVars>>

\* a selection that also takes ties
IsImprovementOrTie(v, b) == RatLeq(b, v)

\* line 395: val_acc > best_accuracy
IsImprovement(v, b) == RatLess(b, v)

\* an epoch loop that runs one epoch too many
NextEpochOneMore ==
    IF epoch + 1 <= NUM_EPOCHS
    THEN /\ epoch' = epoch + 1
         /\ batch' = 0
         /\ pc' = "train"
    ELSE /\ pc' = "write_config"
         /\ UNCHANGED <<epoch, batch>>

\* the for statement of line 385 takes the next epoch or falls through
NextEpoch ==
    IF epoch + 1 < NUM_EPOCHS
    THEN /\ epoch' = epoch + 1
         /\ batch' = 0
         /\ pc' = "train"
    ELSE /\ pc' = "write_config"
         /\ UNCHANGED <<epoch, batch>>

\* lines 394-397
CheckpointSelect ==
    /\ pc = "select"
    /\ seen' = seen \cup {val_acc}
    /\ IF IsImprovement(val_acc, best_accuracy)
       THEN /\ best_accuracy' = val_acc
            /\ pc' = "save_model"
            /\ UNCHANGED <<epoch, batch>>
       ELSE /\ UNCHANGED best_accuracy
            /\ NextEpoch
    /\ UNCHANGED <<exit_code, killed_at, raised_at, fsVars, dataVars, policyVars,
                   schedVars, val_acc, persists, last_ckpt, augVars, serveVars>>

\* line 398: model.save_pretrained
SaveModel ==
    /\ pc = "save_model"
    /\ fs' = [fs EXCEPT !.weights = [run |-> "this", epoch |-> epoch + 1],
                        !.files = @ \cup {"best_model/weights"}]
    /\ pc' = "save_tokenizer"
    /\ UNCHANGED <<exit_code, killed_at, raised_at, fs0, dataVars, policyVars,
                   schedVars, loopVars, augVars, serveVars>>

\* line 399: tokenizer.save_pretrained, then the next iteration
SaveTokenizer ==
    /\ pc = "save_tokenizer"
    /\ fs' = [fs EXCEPT !.tokenizer = [run |-> "this", epoch |-> epoch + 1],
                        !.files = @ \cup {"best_model/tokenizer"}]
    /\ persists' = persists + 1
    /\ last_ckpt' = <<fs.weights, [run |-> "this", epoch |-> epoch + 1]>>
    /\ NextEpoch
    /\ UNCHANGED <<exit_code, killed_at, raised_at, fs0, dataVars, policyVars,
                   schedVars, val_acc, best_accuracy, seen, augVars, serveVars>>

\* lines 401-413, and the script ends
WriteConfig ==
    /\ pc = "write_config"
    /\ fs' = [fs EXCEPT !.config = ModelConfig(classes_),
                        !.files = @ \cup {"model_config.json"}]
    /\ pc' = "done"
    /\ exit_code' = "zero"
    /\ UNCHANGED <<killed_at, raised_at, fs0, dataVars, policyVars,
                   schedVars, loopVars, augVars, serveVars>>

\* lines 415-417 re-raise, lines 431-434 print and sys.exit(1)
ExceptHandler ==
    /\ pc = "raised"
    /\ pc' = "exited"
    /\ exit_code' = "nonzero"
    /\ UNCHANGED <<killed_at, raised_at, fsVars, dataVars, policyVars,
                   schedVars, loopVars, augVars, serveVars>>

Running == pc \notin {"idle", "done", "exited", "terminated"}

\* the process is killed from outside, wherever it is
Terminate ==
    /\ Running
    /\ killed_at' = pc
    /\ pc' = "terminated"
    /\ UNCHANGED <<exit_code, raised_at, fsVars, dataVars, policyVars,
                   schedVars, loopVars, augVars, serveVars>>

Init == TrainInit({EmptyFs, PriorFs})

Next ==
    \/ MakeDirs
    \/ LoadData({ExampleRows})
    \/ FitLabels
    \/ SaveClasses
    \/ LoadBert
    \/ FreezeEmbeddings
    \/ FreezeLayer
    \/ SplitData(1..MaxStepsPerEpoch)
    \/ SetupOptimizer
    \/ TrainBatch
    \/ Evaluate(ValCorrectChoices)
    \/ CheckpointSelect
    \/ SaveModel
    \/ SaveTokenizer
    \/ WriteConfig
    \/ ExceptHandler
    \/ Terminate

Spec == Init /\ [][Next]_vars

\* the statements of the script itself: everything but the external kill
ProgramStep ==
    \/ MakeDirs
    \/ LoadData({ExampleRows})
    \/ FitLabels
    \/ SaveClasses
    \/ LoadBert
    \/ FreezeEmbeddings
    \/ FreezeLayer
    \/ SplitData(1..MaxStepsPerEpoch)
    \/ SetupOptimizer
    \/ TrainBatch
    \/ Evaluate(ValCorrectChoices)
    \/ CheckpointSelect
    \/ SaveModel
    \/ SaveTokenizer
    \/ WriteConfig
    \/ ExceptHandler

\* the interpreter runs the script's next statement as long as the process
\* lives: a single thread, every call synchronous
SpecFair == Init /\ [][Next]_vars /\ WF_vars(ProgramStep)

\* ------------------------------------------------------------------------
\* Properties of augment_text (checked under SpecAug)
\* ------------------------------------------------------------------------
\* the bag of words of a word sequence, as a function word -> count
WordCount(ws, w) == Cardinality({j \in 1..Len(ws) : ws[j] = w})

SameWords(xs, ys) ==
    /\ Len(xs) = Len(ys)
    /\ \A w \in WordSet : WordCount(xs, w) = WordCount(ys, w)

IsWordDropOf(variant, ws) ==
    \E k \in 0..(Len(ws) - 1) : variant = Join(RemoveAt(ws, k))

\* C3 as stated: every text of more than 3 words (4 included) comes back
\* as exactly 3 variants, the first one the input itself.
C3_ThreeVariantsAbove3 ==
    (apc = "returned" /\ Len(Split(text)) > 3)
        => (Len(augmented) = 3 /\ augmented[1] = text)

\* C3 amended: a text of more than 4 words comes back as exactly 3
\* variants (the input, a word-drop of it, a reordering of its words); a
\* text of exactly 4 words comes back as exactly 2 (the input and a
\* reordering of its words); the first variant is the input in both cases.
C3_VariantsByWordCount ==
    apc = "returned" =>
        /\ Len(Split(text)) > 4 =>
              /\ Len(augmented) = 3
              /\ augmented[1] = text
              /\ IsWordDropOf(augmented[2], Split(text))
              /\ SameWords(Split(augmented[3]), Split(text))
        /\ Len(Split(text)) = 4 =>
              /\ Len(augmented) = 2
              /\ augmented[1] = text
              /\ SameWords(Split(augmented[2]), Split(text))

\* a 4-word text has been augmented, and its swap pass moved a word
C3_Witness ==
    /\ apc = "returned"
    /\ Len(Split(text)) = 4
    /\ Len(augmented) = 2
    /\ augmented[2] # text

\* C7: a text of at most 3 words comes back as the single variant that is
\* the input itself, and no random number was drawn on the way.
C7_ShortTextUntouched ==
    (apc = "returned" /\ Len(Split(text)) <= 3)
        => (augmented = <<text>> /\ draws = 0)

\* a text of exactly 3 words has been through augment_text
C7_Witness ==
    /\ apc = "returned"
    /\ Len(Split(text)) = 3
    /\ augmented = <<text>>

\* ------------------------------------------------------------------------
\* Properties of the training run (checked under Spec)
\* ------------------------------------------------------------------------
Zero == <<0, 1>>

One == <<1, 1>>

\* the largest of 0 and the accuracies in S
MaxAccuracy(S) ==
    CHOOSE m \in S \cup {Zero} : \A x \in S \cup {Zero} : RatLeq(x, m)

Checkpoint(f) == <<f.weights, f.tokenizer>>

\* the statements after the optimizer and the scheduler have been built
PolicyApplied ==
    pc \in {"train", "validate", "select", "save_model", "save_tokenizer",
            "write_config", "done"}

\* C1: best_accuracy is always the largest of 0 and the validation
\* accuracies selected on so far; the selection after an epoch's Validate
\* goes on to persist exactly when that epoch's accuracy is strictly
\* greater than it (a tie does not); the persist stores this epoch's
\* weights and tokenizer; and nothing else changes the checkpoint.
C1_PersistIffStrictlyBetter ==
    /\ [](RatEq(best_accuracy, MaxAccuracy(seen)))
    /\ [][(pc = "select" /\ pc' # "terminated") =>
            /\ (pc' = "save_model") <=> RatLess(MaxAccuracy(seen), val_acc)
            /\ RatEq(val_acc, MaxAccuracy(seen)) => pc' # "save_model"
            /\ Checkpoint(fs') = Checkpoint(fs)]_vars
    /\ [][(pc = "save_model" /\ pc' # "terminated") =>
            fs'.weights = [run |-> "this", epoch |-> epoch + 1]]_vars
    /\ [][(pc = "save_tokenizer" /\ pc' # "terminated") =>
            /\ fs'.tokenizer = [run |-> "this", epoch |-> epoch + 1]
            /\ persists' = persists + 1]_vars
    /\ [][(pc \notin {"save_model", "save_tokenizer"}) =>
            (Checkpoint(fs') = Checkpoint(fs) /\ persists' = persists)]_vars

\* the fourth epoch is over after accuracies 0.60, then 0.55 and 0.60 in
\* some order or twice the same, then 0.72: two persists, the last in epoch 4
C1_Witness ==
    /\ pc = "train"
    /\ epoch = 4
    /\ batch = 0
    /\ seen = {<<60, ValTotal>>, <<55, ValTotal>>, <<72, ValTotal>>}
    /\ persists = 2
    /\ Checkpoint(fs) = <<[run |-> "this", epoch |-> 4], [run |-> "this", epoch |-> 4]>>

InEmbeddings(j) == HasPrefix(ParamNames[j], <<"bert", ".", "embeddings", ".">>)

InBlock(j, i) == HasPrefix(ParamNames[j], LayerPrefix(i))

InClassifier(j) == HasPrefix(ParamNames[j], <<"classifier", ".">>)

\* C5: once the policy is applied, the parameters of the embeddings and of
\* blocks 0..9 are frozen, those of blocks 10, 11 and of the classification
\* head are trainable, and the optimizer has exactly the three groups
\* head (2e-4), block 11 (1e-4), block 10 (5e-5), weight decay 0.01 each.
C5_FineTuningPolicy ==
    PolicyApplied =>
        /\ \A j \in 1..Len(ParamNames) :
              /\ InEmbeddings(j) => ~requires_grad[j]
              /\ \A i \in 0..9 : InBlock(j, i) => ~requires_grad[j]
              /\ \A i \in {10, 11} : InBlock(j, i) => requires_grad[j]
              /\ InClassifier(j) => requires_grad[j]
        /\ Len(optimizer_groups) = 3
        /\ optimizer_groups[1] =
              [params |-> {j \in 1..Len(ParamNames) : InClassifier(j)},
               lr |-> 20, weight_decay |-> 1]
        /\ optimizer_groups[2] =
              [params |-> {j \in 1..Len(ParamNames) : InBlock(j, 11)},
               lr |-> 10, weight_decay |-> 1]
        /\ optimizer_groups[3] =
              [params |-> {j \in 1..Len(ParamNames) : InBlock(j, 10)},
               lr |-> 5, weight_decay |-> 1]

\* training has started on a model whose block 9 is frozen and block 10 is not
C5_Witness ==
    /\ pc = "train"
    /\ Len(optimizer_groups) = 3
    /\ \E j \in 1..Len(ParamNames) : InBlock(j, 9) /\ ~requires_grad[j]
    /\ \E j \in 1..Len(ParamNames) : InBlock(j, 10) /\ requires_grad[j]

Multiplier(s) == LrLambda(s, warmup_steps, total_steps)

\* C6: with steps_per_epoch >= 1, warmup_steps is 2 * steps_per_epoch and
\* total_steps is 10 * steps_per_epoch; the multiplier is 0 at step 0, 1 at
\* warmup_steps, 0 at total_steps, does not decrease up to warmup_steps,
\* does not increase after it, and stays within [0, 1]; the scheduler has
\* been stepped once per optimizer update, the current multiplier is the one
\* of the step counter, and the counter is total_steps when the loop is over.
C6_WarmupDecaySchedule ==
    PolicyApplied =>
        /\ steps_per_epoch >= 1
        /\ warmup_steps = 2 * steps_per_epoch
        /\ total_steps = 10 * steps_per_epoch
        /\ RatEq(Multiplier(0), Zero)
        /\ RatEq(Multiplier(warmup_steps), One)
        /\ RatEq(Multiplier(total_steps), Zero)
        /\ \A s \in 0..total_steps :
              /\ Multiplier(s)[2] > 0
              /\ RatLeq(Zero, Multiplier(s))
              /\ RatLeq(Multiplier(s), One)
        /\ \A s \in 0..(total_steps - 1) :
              /\ s < warmup_steps => RatLeq(Multiplier(s), Multiplier(s + 1))
              /\ s >= warmup_steps => RatLeq(Multiplier(s + 1), Multiplier(s))
        /\ sched_step = opt_steps
        /\ lr_mult = Multiplier(sched_step)
        /\ pc \in {"write_config", "done"} => sched_step = total_steps

\* a run of 2 minibatches per epoch has finished its 20 scheduler steps
C6_Witness ==
    /\ pc = "done"
    /\ steps_per_epoch = 2
    /\ sched_step = 20
    /\ lr_mult = Zero

Artifacts(f) == <<f.files, f.labels_npy, f.weights, f.tokenizer, f.config>>

\* C8: when loading or validating the dataset raises, no optimizer step has
\* been taken, nothing of the label vocabulary, the checkpoint directory or
\* model_config.json has been created or written, and the process exits
\* with a nonzero status.
C8_LoadFailureLeavesNoArtifact ==
    raised_at = "load" =>
        /\ pc \in {"raised", "exited", "terminated"}
        /\ opt_steps = 0
        /\ Artifacts(fs) = Artifacts(fs0)
        /\ pc = "exited" => exit_code = "nonzero"

\* the run has exited after a failed load into an output location that was empty
C8_Witness ==
    /\ pc = "exited"
    /\ raised_at = "load"
    /\ exit_code = "nonzero"
    /\ fs0 = EmptyFs
    /\ fs.dir

\* C9: a termination that interrupts Train or Validate leaves the
\* checkpoint location as the last completed persist left it (as it was at
\* the start of the run if there was none), with weights and tokenizer of
\* the same persist; the checkpoint is written only by the two statements
\* of the persist, which is entered only from the selection that follows a
\* completed Validate.
C9_NoPartialCheckpointMidEpoch ==
    /\ [](killed_at \in {"train", "validate"} =>
            /\ Checkpoint(fs) = last_ckpt
            /\ fs.weights = fs.tokenizer
            /\ persists = 0 => Checkpoint(fs) = Checkpoint(fs0)
            /\ persists > 0 => (fs.weights.run = "this" /\ fs.weights.epoch \in 1..epoch))
    /\ [][Checkpoint(fs') # Checkpoint(fs) => pc \in {"save_model", "save_tokenizer"}]_vars
    /\ [][pc' = "save_model" => (pc = "select" /\ batch = steps_per_epoch)]_vars

\* the run was killed inside the Train phase of a later epoch, after a persist
C9_Witness ==
    /\ pc = "terminated"
    /\ killed_at = "train"
    /\ batch = 1
    /\ persists = 1
    /\ fs.weights = [run |-> "this", epoch |-> 2]
    /\ epoch = 3

\* the statements of the epoch loop after a Validate has returned
AfterValidate == pc \in {"select", "save_model", "save_tokenizer"}

\* C11: the loop runs Train(1), Validate(1), ..., Train(10), Validate(10) in
\* that order: Validate(e) is entered only from Train(e) with all its
\* minibatches done, Train(e+1) only once Validate(e) and its selection are
\* over, the config is written only after Validate(10), and the finished run
\* has its config on disk; the optimizer and scheduler counters move only
\* in Train, one minibatch at a time; and a run that is neither killed nor
\* raises gets there (every run ends).
C11_PhaseOrder ==
    /\ [](pc = "train" =>
            (epoch \in 0..9 /\ batch < steps_per_epoch
             /\ opt_steps = epoch * steps_per_epoch + batch))
    /\ []((pc = "validate" \/ AfterValidate) =>
            (epoch \in 0..9 /\ batch = steps_per_epoch
             /\ opt_steps = (epoch + 1) * steps_per_epoch))
    /\ [](pc \in {"write_config", "done"} =>
            (epoch = 9 /\ opt_steps = 10 * steps_per_epoch))
    /\ [](pc = "done" => ("model_config.json" \in fs.files /\ exit_code = "zero"))
    /\ [][pc' = "validate" => (pc = "train" /\ epoch' = epoch)]_vars
    /\ [][(pc' = "train" /\ pc # "train") =>
            \/ (pc = "optimizer" /\ epoch' = 0)
            \/ (pc \in {"select", "save_tokenizer"} /\ epoch' = epoch + 1)]_vars
    /\ [][epoch' # epoch => (pc' = "train" /\ batch' = 0)]_vars
    /\ [][pc' = "write_config" => (pc \in {"select", "save_tokenizer"} /\ epoch = 9)]_vars
    /\ [][(opt_steps' # opt_steps \/ sched_step' # sched_step \/ lr_mult' # lr_mult) =>
            (pc \in {"optimizer", "train"}
             /\ (pc = "train" => (opt_steps' = opt_steps + 1 /\ sched_step' = sched_step + 1)))]_vars
    /\ [][pc = "validate" =>
            (opt_steps' = opt_steps /\ sched_step' = sched_step
             /\ requires_grad' = requires_grad)]_vars
    /\ <>(pc \in {"done", "exited", "terminated"})

\* a run of 2 minibatches per epoch is done after its 10th Validate
C11_Witness ==
    /\ pc = "done"
    /\ epoch = 9
    /\ steps_per_epoch = 2
    /\ opt_steps = 20
    /\ "model_config.json" \in fs.files
    /\ killed_at = Absent
    /\ raised_at = Absent

\* C12 as stated: when the run has ended normally, with model_config.json
\* written, the label vocabulary has been persisted and the checkpoint has
\* been persisted at least once during this run, whatever the validation
\* accuracies were.
C12_CompleteBundle ==
    pc = "done" =>
        /\ "model_config.json" \in fs.files
        /\ "label_encoder_classes.npy" \in fs.files
        /\ fs.labels_npy = classes_
        /\ persists >= 1
        /\ fs.weights.run = "this"
        /\ fs.tokenizer.run = "this"

\* the optimizer groups, by position, that hold parameter j
GroupsOf(j) == {g \in 1..Len(optimizer_groups) : j \in optimizer_groups[g].params}

\* C13 as stated: once the optimizer is set up, its three groups partition
\* exactly the trainable parameters: every parameter whose requires_grad is
\* still true (the pooler's included) is in exactly one group, no parameter
\* is in two groups, and no frozen parameter is in any group.
C13_GroupsPartitionTrainable ==
    PolicyApplied =>
        /\ Len(optimizer_groups) = 3
        /\ \A j \in 1..Len(ParamNames) :
            /\ requires_grad[j] => Cardinality(GroupsOf(j)) = 1
            /\ Cardinality(GroupsOf(j)) <= 1
            /\ ~requires_grad[j] => GroupsOf(j) = {}

\* ------------------------------------------------------------------------
\* Label vocabulary from the dataset to the serving process
\* ------------------------------------------------------------------------
\* load_model_and_config, app.py:36-60: the globals are assigned in order
\* until a file is missing; the result is whether all four were loaded.
\* The serving process reads the directory model/ that the training run
\* wrote as OUTPUT_DIR.
CanLoadConfig == "model_config.json" \in fs.files

CanLoadModel == CanLoadConfig /\ "best_model/weights" \in fs.files

CanLoadTokenizer == CanLoadModel /\ "best_model/tokenizer" \in fs.files

CanLoadLabels == CanLoadTokenizer /\ "label_encoder_classes.npy" \in fs.files

LoadModelAndConfig ==
    /\ config' = IF CanLoadConfig THEN fs.config ELSE config
    /\ model' = IF CanLoadModel THEN fs.weights ELSE model
    /\ tokenizer' = IF CanLoadTokenizer THEN fs.tokenizer ELSE tokenizer
    /\ label_encoder_classes' =
          IF CanLoadLabels THEN [is_none |-> FALSE, items |-> fs.labels_npy]
          ELSE label_encoder_classes

\* app.py:143-151: the server is started only if the load succeeded
MainStart ==
    /\ server = "down"
    /\ LoadModelAndConfig
    /\ server' = IF CanLoadLabels THEN "serving" ELSE "stopped"
    /\ UNCHANGED <<request, response, trainVars, augVars>>

\* app.py:18-29: the module is imported by a WSGI server, which serves app
\* without running the __main__ block, so nothing is loaded
WsgiImport ==
    /\ server = "down"
    /\ server' = "serving"
    /\ UNCHANGED <<model, tokenizer, config, label_encoder_classes,
                   request, response, trainVars, augVars>>

InitVocab == TrainInit({EmptyFs})

NextVocab ==
    \/ MakeDirs
    \/ LoadData(RowSeqs)
    \/ FitLabels
    \/ SaveClasses
    \/ LoadBert
    \/ FreezeEmbeddings
    \/ FreezeLayer
    \/ SplitData({1})
    \/ SetupOptimizer
    \/ TrainBatch
    \/ Evaluate({60})
    \/ CheckpointSelect
    \/ SaveModel
    \/ SaveTokenizer
    \/ WriteConfig
    \/ ExceptHandler
    \/ MainStart

SpecVocab == InitVocab /\ [][NextVocab]_vars

\* ------------------------------------------------------------------------
\* The request handlers (app.py:79-138)
\* ------------------------------------------------------------------------
\* default of SUICIDAL_CONFIDENCE_THRESHOLD, in hundredths
DefaultThreshold == 75

\* confidences the model may report (the largest softmax probability), in
\* hundredths
ConfValues == {70, 75, 80}

\* the environment variable: unset, a number (in hundredths), or text that
\* float() rejects
EnvChoices ==
    {[state |-> "unset", value |-> 0], [state |-> "garbage", value |-> 0]}
    \cup {[state |-> "number", value |-> v] : v \in {70, 80}}

\* request bodies: what get_json makes of the body, and for a JSON object
\* what it holds under 'text'
BodyChoices ==
    {[json |-> j, text |-> "missing"] : j \in {"not_json", "null", "array", "string"}}
    \cup {[json |-> "object", text |-> t] :
             t \in {"missing", "empty", "zero", "number", "string"}}

\* line 120
Threshold(env) == IF env.state = "unset" THEN DefaultThreshold ELSE env.value

\* an escalation rule that also fires at the threshold
NeedsImmediateHelpAtThreshold(emotion, confidence, threshold) ==
    emotion = suicidal /\ confidence >= threshold

\* line 124
NeedsImmediateHelp(emotion, confidence, threshold) ==
    emotion = suicidal /\ confidence > threshold

ErrorResponse(status, msg) ==
    [status |-> status, error |-> msg, emotion |-> <<>>, confidence |-> 0,
     needs_immediate_help |-> FALSE]

\* lines 127-131
OkResponse(emotion, confidence, help) ==
    [status |-> 200, error |-> "", emotion |-> emotion, confidence |-> confidence,
     needs_immediate_help |-> help]

\* lines 133-138
GenericError == ErrorResponse(500, "Internal server error analyzing sentiment.")

\* the response of analyze_sentiment (lines 87-138) to a request, given
\* what inference does: it raises, or returns an index and a confidence
AnalyzeResponse(body, env, infer) ==
    IF model = NoCkpt                                     \* lines 89-91
    THEN ErrorResponse(500, "Model not loaded, please check server logs.")
    ELSE IF body.json = "not_json" THEN GenericError      \* get_json raises
    ELSE IF body.json # "object" THEN GenericError        \* no .get on it
    ELSE IF body.text \in {"missing", "empty", "zero"}
         THEN ErrorResponse(400, "No text provided")          \* lines 96-97
    ELSE IF body.text = "number" THEN GenericError        \* tokenizer raises
    ELSE IF infer.raises THEN GenericError
    ELSE IF label_encoder_classes.is_none
            \/ infer.idx >= Len(label_encoder_classes.items)
         THEN GenericError                                \* line 115 raises
    ELSE IF env.state = "garbage" THEN GenericError       \* float() raises
    ELSE OkResponse(label_encoder_classes.items[infer.idx + 1], infer.confidence,
                    NeedsImmediateHelp(label_encoder_classes.items[infer.idx + 1],
                                       infer.confidence, Threshold(env)))

InferChoices ==
    {[raises |-> TRUE, idx |-> 0, confidence |-> 0]}
    \cup {[raises |-> FALSE, idx |-> i, confidence |-> c] :
             i \in 0..(Cardinality(LabelSet) - 1), c \in ConfValues}

\* POST /analyze
AnalyzeSentiment ==
    /\ server = "serving"
    /\ \E body \in BodyChoices, env \in EnvChoices, infer \in InferChoices :
          /\ request' = [kind |-> "analyze", body |-> body, env |-> env, infer |-> infer]
          /\ response' = AnalyzeResponse(body, env, infer)
    /\ UNCHANGED <<server, model, tokenizer, config, label_encoder_classes,
                   trainVars, augVars>>

\* GET /healthz, lines 79-81
HealthCheck ==
    /\ server = "serving"
    /\ request' = [kind |-> "healthz"]
    /\ response' = [status |-> 200, error |-> "", emotion |-> <<>>, confidence |-> 0,
                    needs_immediate_help |-> FALSE]
    /\ UNCHANGED <<server, model, tokenizer, config, label_encoder_classes,
                   trainVars, augVars>>

\* a complete bundle of a finished training run on the example labels
TrainedFs ==
    [dir |-> TRUE,
     files |-> {"label_encoder_classes.npy", "best_model/weights",
                "best_model/tokenizer", "model_config.json"},
     labels_npy |-> Unique(ExampleRows),
     weights |-> [run |-> "earlier", epoch |-> 7],
     tokenizer |-> [run |-> "earlier", epoch |-> 7],
     config |-> ModelConfig(Unique(ExampleRows))]

InitServe ==
    /\ pc = "idle"
    /\ fs \in {EmptyFs, TrainedFs,
               [TrainedFs EXCEPT !.files = @ \ {"label_encoder_classes.npy"}]}
    /\ fs0 = fs
    /\ TrainFresh
    /\ AugIdle
    /\ ServeIdle

NextServe == MainStart \/ WsgiImport \/ AnalyzeSentiment \/ HealthCheck

SpecServe == InitServe /\ [][NextServe]_vars

\* ------------------------------------------------------------------------
\* Properties of the label vocabulary (checked under SpecVocab)
\* ------------------------------------------------------------------------
\* the one strictly increasing arrangement of a set of labels
SortedLabels(S) ==
    CHOOSE s \in [1..Cardinality(S) -> S] :
        \A j \in 1..(Cardinality(S) - 1) : LexLess(s[j], s[j + 1])

\* C4: the ids 0..k-1 go to the k distinct labels in lexicographic order,
\* whatever the order and the multiplicity of the rows ({sad, happy, sad,
\* suicidal} gives happy:0, sad:1, suicidal:2); the label array persisted
\* for the serving process, the list the serving process loads from it and
\* the label_mapping written to model_config.json are that same assignment.
C4_LabelVocabulary ==
    LET sorted == SortedLabels(Range(rows)) IN
    /\ pc \notin {"makedirs", "load", "fit", "raised", "exited"} =>
          /\ classes_ = sorted
          /\ Range(rows) = {happy, sad, suicidal} => classes_ = <<happy, sad, suicidal>>
    /\ "label_encoder_classes.npy" \in fs.files => fs.labels_npy = sorted
    /\ "model_config.json" \in fs.files =>
          /\ fs.config.num_labels = Cardinality(Range(rows))
          /\ Cardinality(fs.config.label_mapping) = Cardinality(Range(rows))
          /\ \A j \in 1..Len(sorted) : <<Decimal(j - 1), sorted[j]>> \in fs.config.label_mapping
    /\ ~label_encoder_classes.is_none => label_encoder_classes.items = sorted
    /\ config # NoConfig => config.label_mapping = fs.config.label_mapping

\* the serving process runs on the bundle trained from the example rows
C4_Witness ==
    /\ pc = "done"
    /\ rows = ExampleRows
    /\ server = "serving"
    /\ label_encoder_classes.items = <<happy, sad, suicidal>>
    /\ <<<<"2">>, suicidal>> \in config.label_mapping

\* ------------------------------------------------------------------------
\* Properties of the request handlers (checked under SpecServe)
\* ------------------------------------------------------------------------
\* C2: a successful /analyze response reports the label at the predicted
\* index and the model's confidence, and its needs_immediate_help is true
\* exactly when that label is "suicidal" and the confidence is strictly
\* greater than the configured threshold (0.75 when none is configured).
C2_EscalationRule ==
    (request.kind = "analyze" /\ response.status = 200) =>
        LET threshold == IF request.env.state = "unset" THEN 75 ELSE request.env.value IN
        /\ response.emotion = label_encoder_classes.items[request.infer.idx + 1]
        /\ response.confidence = request.infer.confidence
        /\ response.needs_immediate_help <=>
              (response.emotion = suicidal /\ response.confidence > threshold)
        /\ response.confidence = threshold => ~response.needs_immediate_help
        /\ response.emotion # suicidal => ~response.needs_immediate_help

\* "suicidal" at exactly the default threshold: no escalation
C2_Witness ==
    /\ request.kind = "analyze"
    /\ response.status = 200
    /\ request.env.state = "unset"
    /\ response.emotion = suicidal
    /\ response.confidence = 75
    /\ ~response.needs_immediate_help

\* the body carries no non-empty 'text' field
NoTextProvided(body) == body.json # "object" \/ body.text \in {"missing", "empty"}

\* C10 as stated: without a loaded model the status is 5xx; with one, a
\* body without a non-empty 'text' field (an empty, null or non-object body
\* included) gets a 4xx status, and every other failure gets status 500
\* with the fixed message.
C10_ErrorStatuses ==
    request.kind = "analyze" =>
        /\ model = NoCkpt => response.status \in 500..599
        /\ (model # NoCkpt /\ NoTextProvided(request.body)) => response.status \in 400..499
        /\ (model # NoCkpt /\ response.status \notin (400..499) \cup {200}) =>
              (response.status = 500
               /\ response.error = "Internal server error analyzing sentiment.")

=============================================================================
